---- MODULE Spec2Model ----
(***************************************************************************)
(* Model of src/src/monkeys/portfolio.py: the random weight generator      *)
(* (simulate_random_weights, generate_weight_history), the portfolio       *)
(* return simulator (simulate_portfolio_returns) and                       *)
(* calculate_portfolio_return, and the MonkeyPortfolio dataclass; and of    *)
(* src/src/monkeys/data.py: load_prices_from_csv, calculate_returns and    *)
(* get_valid_tickers.                                                      *)
(*                                                                         *)
(* Numbers.  A float array is modelled exactly, as integer numerators over *)
(* one common denominator: [num |-> <<a1, .., ak>>, den |-> d] is the      *)
(* array a1/d, .., ak/d, and a float scalar is [num |-> a, den |-> d].     *)
(* A denominator of 0 is a value that is not finite (IEEE 0/0 = NaN,       *)
(* x/0 = +-inf); numpy produces it with a warning, not with an exception.  *)
(* Rounding is not modelled: every tolerance in the code (np.isclose) is   *)
(* far wider than the rounding error of these sums.                        *)
(*                                                                         *)
(* An optional value (Python None or a value) is a sequence of length 0    *)
(* or 1.                                                                   *)
(***************************************************************************)
EXTENDS Integers, Sequences, FiniteSets, TLC

(***************************************************************************)
(* Bounds of the model.                                                    *)
(***************************************************************************)
\* largest n_assets, largest number of columns of the returns matrix and
\* largest length of a probabilities vector
MaxAssets == 2
\* largest n_periods and largest number of rows of the returns matrix
MaxPeriods == 3
\* largest rebalance_frequency
MaxFreq == 2
\* number of distinct values a uniform draw takes: u = k/UCard, k in 0..UCard-1
UCard == 3
\* number of states of the bit generator
RngMod == 16
\* largest number of rows of a price table
MaxRows == 3
\* largest number of data rows of a CSV file
MaxFileRows == 2

None == <<>>
Some(x) == <<x>>
IsNone(o) == Len(o) = 0
Val(o) == o[1]

Abs(x) == IF x < 0 THEN -x ELSE x

RECURSIVE SumSeq(_)
\* ndarray.sum() over the numerators of a 1-D array
SumSeq(s) == IF Len(s) = 0 THEN 0 ELSE s[1] + SumSeq(Tail(s))

(***************************************************************************)
(* Input sets.                                                             *)
(***************************************************************************)
Seeds == {0, 1}
SeedArgs == {None} \cup {Some(s) : s \in Seeds}
\* what the operating system's entropy may seed an unseeded generator with
EntropyStates == {0, 1}
ProbVals == {-1, 0, 1, 2}
ProbVectors == UNION {[1..k -> ProbVals] : k \in 0..MaxAssets}
ProbArgs == {None} \cup {Some([num |-> v, den |-> 1]) : v \in ProbVectors}
AssetArgs == -1..MaxAssets
PeriodArgs == -1..MaxPeriods
FreqArgs == 0..MaxFreq
RetVals == {-1, 2}
\* a 2-D returns array of T periods by n assets: the first row is r0 and every
\* later row is the one before it plus 1, so that all rows differ
Matrix(T, n, r0) ==
    [ndim |-> 2, shape |-> <<T, n>>,
     data |-> [t \in 1..T |-> [i \in 1..n |-> r0[i] + (t - 1)]]]
Matrices ==
    UNION {{Matrix(T, n, r0) : r0 \in [1..n -> RetVals]} :
              T \in 0..MaxPeriods, n \in 0..MaxAssets}
\* arrays that are not 2-dimensional
NonMatrices ==
    {[ndim |-> 1, shape |-> <<2>>, data |-> <<-1, 2>>],
     [ndim |-> 3, shape |-> <<1, 1, 1>>, data |-> << << <<2>> >> >>]}
ReturnsArgs == Matrices \cup NonMatrices
NoReturns == [ndim |-> 2, shape |-> <<0, 0>>, data |-> <<>>]
\* weights in fifths, among them 0.6 and 0.4, a negative one and one above 1
WeightVals == {-1, 0, 2, 3, 5, 6}
WeightArgs ==
    {[num |-> v, den |-> 5] : v \in UNION {[1..k -> WeightVals] : k \in 0..MaxAssets}}
NoWeights == [num |-> <<>>, den |-> 1]
\* lists of ticker symbols
TickerArgs == UNION {[1..k -> {"A", "B"}] : k \in 0..MaxAssets}
\* what a caller may assign to the fields of a portfolio it holds
AssignedWeights == {[num |-> <<5>>, den |-> 5], [num |-> <<6, -1>>, den |-> 5]}
AssignedTickers == {<<"A">>}
\* a period's asset returns in hundredths, among them -0.10 and 0.05
ReturnVals == {-10, 0, 5}
\* a 1-D array of returns
Vector(v) == [ndim |-> 1, shape |-> <<Len(v)>>, data |-> v]
ReturnVectors == {Vector(v) : v \in UNION {[1..k -> ReturnVals] : k \in 0..MaxAssets}}

\* the column names of a CSV file or of a table; a file without a header line
\* has no bytes at all
Headers == {<<>>, <<"Date">>, <<"A">>, <<"Date", "A">>, <<"A", "Date">>,
            <<"Date", "A", "B">>}
\* the positions of the columns that are not the Date column
TickerIdx(h) == {j \in 1..Len(h) : h[j] # "Date"}
\* the text of a cell of a CSV file: a date, an integer ("100"), a decimal
\* number ("102.0"), nothing at all, or text that is no number ("abc")
DateCell(d) == [kind |-> "date", v |-> d]
TickerCells ==
    {[kind |-> "int", v |-> 100], [kind |-> "float", v |-> 102],
     [kind |-> "empty", v |-> 0], [kind |-> "text", v |-> 0]}
\* the files with header h and T data rows; the date of row t is day t
FilesWith(h, T) ==
    {[exists |-> TRUE, header |-> h,
      rows |-> [t \in 1..T |->
                  [j \in 1..Len(h) |-> IF h[j] = "Date" THEN DateCell(t) ELSE g[t][j]]]] :
        g \in [1..T -> [TickerIdx(h) -> TickerCells]]}
\* a path at which there is no file
NoFile == [exists |-> FALSE, header |-> <<>>, rows |-> <<>>]
Files ==
    {NoFile} \cup UNION {UNION {FilesWith(h, T) :
                                   T \in 0..(IF Len(h) = 0 THEN 0 ELSE MaxFileRows)} :
                            h \in Headers}
\* a price: a positive number or null
PriceCells == {None, Some(100), Some(102)}
\* the price tables with columns h and T rows; the date of row t is day t
TablesWith(h, T) ==
    {[columns |-> h,
      dtypes |-> [j \in 1..Len(h) |-> IF h[j] = "Date" THEN "Date" ELSE "Float64"],
      rows |-> [t \in 1..T |->
                  [j \in 1..Len(h) |-> IF h[j] = "Date" THEN Some(t) ELSE g[t][j]]]] :
        g \in [1..T -> [TickerIdx(h) -> PriceCells]]}
\* a table without columns has no rows
PriceTables ==
    UNION {UNION {TablesWith(h, T) : T \in 0..(IF Len(h) = 0 THEN 0 ELSE MaxRows)} :
              h \in Headers}
NoTable == [columns |-> <<>>, dtypes |-> <<>>, rows |-> <<>>]
Methods == {"simple", "log", "geometric"}
\* thresholds of get_valid_tickers, among them the default
MinObsArgs == {0, 1, 2, 252}

(***************************************************************************)
(* numpy                                                                   *)
(***************************************************************************)
\* np.isclose(a, b) for scalars a = x.num/x.den and an integer b, with numpy's
\* defaults rtol = 1e-5 and atol = 1e-8: |a - b| <= atol + rtol * |b|.
\* A value that is not finite is close to nothing.
IsClose(x, b) ==
    /\ x.den # 0
    /\ Abs(x.num - b * x.den) * 100000000 <= (1 + 1000 * Abs(b)) * Abs(x.den)

\* ndarray.sum() of a 1-D array
ArraySum(a) == [num |-> SumSeq(a.num), den |-> a.den]

\* np.ones(n) / n
UniformProbabilities(n) == [num |-> [i \in 1..n |-> 1], den |-> n]

\* numpy broadcasting of two 1-D lengths (or of the last axes of two arrays)
BroadcastOK(k, n) == k = n \/ k = 1 \/ n = 1
BroadcastLen(k, n) == IF k = 1 THEN n ELSE k
Elem(s, i) == IF Len(s) = 1 THEN s[1] ELSE s[i]
\* a * b, elementwise with broadcasting
Mul(a, b) ==
    [num |-> [i \in 1..BroadcastLen(Len(a.num), Len(b.num)) |->
                 Elem(a.num, i) * Elem(b.num, i)],
     den |-> a.den * b.den]

\* mutant: divides by the number of weights instead of their sum
NormalizeByCount(raw) == [num |-> raw.num, den |-> Len(raw.num) * raw.den]
\* raw / raw.sum(): the common denominator of raw cancels
Normalize(raw) == [num |-> raw.num, den |-> SumSeq(raw.num)]

\* mutant: the returns are summed without their weights
DotUnweighted(w, r) ==
    IF Len(w.num) = 0 THEN [num |-> 0, den |-> 1]
    ELSE [num |-> SumSeq([i \in 1..Len(w.num) |-> r[i]]), den |-> 1]
\* mutant: the sum stops one asset short
DotSkipLast(w, r) ==
    IF Len(w.num) <= 1 THEN [num |-> 0, den |-> 1]
    ELSE [num |-> SumSeq([i \in 1..(Len(w.num) - 1) |-> w.num[i] * r[i]]), den |-> w.den]
\* float(np.dot(w, r)) of a float array w and an integer row r of equal length
Dot(w, r) ==
    IF Len(w.num) = 0 THEN [num |-> 0, den |-> 1]
    ELSE [num |-> SumSeq([i \in 1..Len(w.num) |-> w.num[i] * r[i]]), den |-> w.den]

\* the bit generator's transition
NextState(s) == (5 * s + 3) % RngMod
RECURSIVE Advance(_, _)
\* the generator's state after k draws
Advance(s, k) == IF k <= 0 THEN s ELSE Advance(NextState(s), k - 1)
\* mutant: the seed is not passed on to the generator
default_rng_unseeded(seed, entropy) == entropy
\* np.random.default_rng(seed): the state of the fresh generator
default_rng(seed, entropy) == IF IsNone(seed) THEN entropy ELSE Val(seed) % RngMod
\* rng.uniform(0, 1, n) from state s: n values in [0, 1)
Uniform(s, n) == [num |-> [i \in 1..n |-> Advance(s, i - 1) % UCard], den |-> UCard]

Raise(e) == [status |-> e, value |-> <<>>]
Return(v) == [status |-> "ok", value |-> v]
NoResult == [status |-> "none", value |-> <<>>]

VARIABLES
    op,                   \* the function the caller calls
    n_assets,             \* argument
    n_periods,            \* argument
    probabilities,        \* argument (optional)
    returns,              \* argument
    weights,              \* argument
    file,                 \* what the file system holds at the argument filepath
    prices,               \* argument
    method,               \* argument
    min_observations,     \* argument
    tickers,              \* argument
    portfolio,            \* the MonkeyPortfolio the caller holds (optional)
    rebalance_frequency,  \* argument
    seed,                 \* argument (optional) of the current or last call
    pc,                   \* "idle", "loop" inside simulate_portfolio_returns, or
                          \* "read_csv" inside load_prices_from_csv
    rng,                  \* state of the call's generator
    t,                    \* loop index
    current_weights,      \* the held weights (optional)
    portfolio_returns,    \* the output array being filled
    result,               \* how the last call ended
    draws,                \* history: how many uniforms the call has taken from
                          \* its generator
    drawn_at,             \* history: the periods at which weights were drawn
    weights_used,         \* history: the weights each period's return used
    first                 \* history: the first seeded call's seed and result
                          \* (optional)

vars ==
    <<op, n_assets, n_periods, probabilities, returns, weights, file, prices,
      method, min_observations, tickers, portfolio, rebalance_frequency, seed,
      pc, rng, t, current_weights, portfolio_returns, result, draws, drawn_at,
      weights_used, first>>

\* what the caller passes, and the portfolio it holds
args ==
    <<op, n_assets, n_periods, probabilities, returns, weights, file, prices,
      method, min_observations, tickers, portfolio, rebalance_frequency>>
locals == <<t, current_weights, portfolio_returns, drawn_at, weights_used>>

\* the caller keeps the first seeded call's outcome to compare later ones with
\* and notes whether a call with another seed, or with none, came in between
Remember(s, res) ==
    IF IsNone(first)
    THEN IF IsNone(s) THEN None
         ELSE Some([seed |-> Val(s), result |-> res, between |-> FALSE])
    ELSE IF IsNone(s) \/ Val(s) # Val(first).seed
         THEN Some([Val(first) EXCEPT !.between = TRUE])
         ELSE first

(***************************************************************************)
(* MonkeyPortfolio                                                         *)
(***************************************************************************)
\* an error with its message
RaiseMsg(e, msg) == [status |-> e, value |-> <<>>, message |-> msg]
\* mutant: the sign of the weights is tested before their sum
PostInitSignFirst(w, l, s) ==
    IF Len(w.num) # Len(l) THEN RaiseMsg("ValueError", "must match tickers length")
    ELSE IF \E i \in 1..Len(w.num) : w.num[i] * w.den < 0
         THEN RaiseMsg("ValueError", "must be non-negative")
    ELSE IF ~IsClose(ArraySum(w), 1) THEN RaiseMsg("ValueError", "must sum to 1.0")
    ELSE Return(Some([weights |-> w, tickers |-> l, seed |-> s]))
\* the generated __init__ and __post_init__
PostInit(w, l, s) ==
    IF Len(w.num) # Len(l) THEN RaiseMsg("ValueError", "must match tickers length")
    ELSE IF ~IsClose(ArraySum(w), 1) THEN RaiseMsg("ValueError", "must sum to 1.0")
    ELSE IF \E i \in 1..Len(w.num) : w.num[i] * w.den < 0
         THEN RaiseMsg("ValueError", "must be non-negative")
    ELSE Return(Some([weights |-> w, tickers |-> l, seed |-> s]))
\* the property n_assets
PortfolioNAssets(obj) == Len(obj.tickers)

\* portfolio = MonkeyPortfolio(weights, tickers, seed)
MonkeyPortfolio ==
    /\ op = "MonkeyPortfolio"
    /\ pc = "idle"
    /\ \E s \in SeedArgs :
        LET res == PostInit(weights, tickers, s)
        IN  /\ seed' = s
            /\ result' = res
            /\ portfolio' = IF res.status = "ok" THEN res.value ELSE portfolio
    /\ UNCHANGED <<op, n_assets, n_periods, probabilities, returns, weights, file,
                   prices, method, min_observations, tickers, rebalance_frequency,
                   pc, rng, locals, draws, first>>

\* portfolio.weights = w: the dataclass is not frozen, and nothing validates
\* the new value
SetWeights ==
    /\ op = "MonkeyPortfolio"
    /\ ~IsNone(portfolio)
    /\ \E w \in AssignedWeights :
        portfolio' = Some([Val(portfolio) EXCEPT !.weights = w])
    /\ UNCHANGED <<op, n_assets, n_periods, probabilities, returns, weights, file,
                   prices, method, min_observations, tickers, rebalance_frequency,
                   seed, pc, rng, locals, draws, result, first>>

\* portfolio.tickers = l
SetTickers ==
    /\ op = "MonkeyPortfolio"
    /\ ~IsNone(portfolio)
    /\ \E l \in AssignedTickers :
        portfolio' = Some([Val(portfolio) EXCEPT !.tickers = l])
    /\ UNCHANGED <<op, n_assets, n_periods, probabilities, returns, weights, file,
                   prices, method, min_observations, tickers, rebalance_frequency,
                   seed, pc, rng, locals, draws, result, first>>

(***************************************************************************)
(* simulate_random_weights                                                 *)
(***************************************************************************)
\* mutant: the length of the probabilities is not checked
SrwInvalidNoLength(n, probs) ==
    \/ n < 1
    \/ ~IsNone(probs) /\ ~IsClose(ArraySum(Val(probs)), 1)
\* the argument checks
SrwInvalid(n, probs) ==
    \/ n < 1
    \/ /\ ~IsNone(probs)
       /\ \/ Len(Val(probs).num) # n
          \/ ~IsClose(ArraySum(Val(probs)), 1)

\* the weights from generator state g
SrwWeights(n, g, probs) ==
    LET p == IF IsNone(probs) THEN UniformProbabilities(n) ELSE Val(probs)
        uniform_samples == Uniform(g, n)
        raw_weights == Mul(p, uniform_samples)
    IN  Normalize(raw_weights)

SrwResult(n, g, probs) ==
    IF SrwInvalid(n, probs) THEN Raise("ValueError")
    ELSE Return(Some(SrwWeights(n, g, probs)))

simulate_random_weights ==
    /\ op = "simulate_random_weights"
    /\ pc = "idle"
    /\ \E s \in SeedArgs, e \in EntropyStates :
        LET g == default_rng(s, e)
            res == SrwResult(n_assets, g, probabilities)
        IN  /\ seed' = s
            /\ rng' = g
            /\ result' = res
            /\ first' = Remember(s, res)
    \* rng.uniform(0, 1, n_assets) comes after the argument checks
    /\ draws' = IF SrwInvalid(n_assets, probabilities) THEN 0 ELSE n_assets
    /\ UNCHANGED <<args, pc, locals>>

(***************************************************************************)
(* generate_weight_history                                                 *)
(***************************************************************************)
\* mutant: a row starts one draw, not one block, after the row before
RowStateOverlapping(g, k, n) == Advance(g, k - 1)
\* mutant: the generator is seeded again for every row
RowStateReseeded(g, k, n) == g
\* the generator's state before the draws of row k (1-based) of the
\* (n_periods, n_assets) array of uniforms, which is filled row by row
RowState(g, k, n) == Advance(g, (k - 1) * n)

\* the uniforms taken by rng.uniform(0, 1, (n_periods, n_assets)), which is
\* reached once the argument checks and np.ones have passed and which raises
\* for a negative dimension
GwhDraws(n, T, probs) ==
    IF T < 1 THEN 0
    ELSE IF ~IsNone(probs) /\ ~IsClose(ArraySum(Val(probs)), 1) THEN 0
    ELSE IF n < 0 THEN 0
    ELSE T * n

GwhResult(n, T, g, probs) ==
    LET p == IF IsNone(probs) THEN UniformProbabilities(n) ELSE Val(probs)
    IN  IF T < 1 THEN Raise("ValueError")
        \* np.ones(n_assets) of a negative length
        ELSE IF IsNone(probs) /\ n < 0 THEN Raise("ValueError")
        ELSE IF ~IsNone(probs) /\ ~IsClose(ArraySum(p), 1) THEN Raise("ValueError")
        \* rng.uniform of a negative dimension
        ELSE IF n < 0 THEN Raise("ValueError")
        \* probabilities * uniform_samples: operands could not be broadcast
        ELSE IF ~BroadcastOK(Len(p.num), n) THEN Raise("ValueError")
        ELSE Return([k \in 1..T |->
                        Normalize(Mul(p, Uniform(RowState(g, k, n), n)))])

generate_weight_history ==
    /\ op = "generate_weight_history"
    /\ pc = "idle"
    /\ \E s \in SeedArgs, e \in EntropyStates :
        LET g == default_rng(s, e)
            res == GwhResult(n_assets, n_periods, g, probabilities)
        IN  /\ seed' = s
            /\ rng' = g
            /\ result' = res
            /\ first' = Remember(s, res)
    /\ draws' = GwhDraws(n_assets, n_periods, probabilities)
    /\ UNCHANGED <<args, pc, locals>>

(***************************************************************************)
(* simulate_portfolio_returns                                              *)
(***************************************************************************)
\* mutant: a frequency of 0 passes the check
SimInvalidOffByOne(r, f) == r.ndim # 2 \/ f < 0
\* the argument checks
SimInvalid(r, f) == r.ndim # 2 \/ f < 1

\* Python's a % b for b # 0: the result has the sign of b
PyMod(a, b) == IF b > 0 THEN a % b ELSE -((-a) % (-b))

\* mutant: new weights are drawn at every period
NeedsRebalanceAlways(k, f, cw) == TRUE
\* mutant: rebalances at the end of each run of f periods instead of its start
NeedsRebalanceOffByOne(k, f, cw) == PyMod(k + 1, f) = 0 \/ IsNone(cw)
\* mutant: no draw at period 0 and no test of the unset register
NeedsRebalanceSkipFirst(k, f, cw) == k > 0 /\ PyMod(k, f) = 0
\* the rebalance test of the loop
NeedsRebalance(k, f, cw) == PyMod(k, f) = 0 \/ IsNone(cw)

\* mutant: every period's return is computed from the first row
PeriodReturnFirstRow(w, r, k) == Dot(w, r.data[1])
\* the return of period k (0-based) under weights w
PeriodReturn(w, r, k) == Dot(w, r.data[k + 1])

\* the call, up to the loop
SimCall ==
    /\ op = "simulate_portfolio_returns"
    /\ pc = "idle"
    /\ \E s \in SeedArgs, e \in EntropyStates :
        /\ seed' = s
        /\ IF SimInvalid(returns, rebalance_frequency)
           THEN /\ result' = Raise("ValueError")
                /\ first' = Remember(s, Raise("ValueError"))
                /\ draws' = 0
                /\ UNCHANGED <<pc, rng, locals>>
           ELSE /\ rng' = default_rng(s, e)
                /\ portfolio_returns' = [k \in 1..returns.shape[1] |-> [num |-> 0, den |-> 1]]
                /\ current_weights' = None
                /\ t' = 0
                /\ pc' = "loop"
                /\ result' = NoResult
                /\ draws' = 0
                /\ drawn_at' = <<>>
                /\ weights_used' = <<>>
                /\ UNCHANGED first
    /\ UNCHANGED args

\* one iteration of the loop over the periods
SimPeriod ==
    /\ pc = "loop"
    /\ t < returns.shape[1]
    /\ LET n == returns.shape[2]
           p == IF IsNone(probabilities) THEN UniformProbabilities(n)
                ELSE Val(probabilities)
           rebalance == rebalance_frequency # 0
                        /\ NeedsRebalance(t, rebalance_frequency, current_weights)
           held == IF rebalance /\ BroadcastOK(Len(p.num), n)
                   THEN Some(Normalize(Mul(p, Uniform(rng, n))))
                   ELSE current_weights
           error == \* t % rebalance_frequency with a frequency of 0
                    IF rebalance_frequency = 0 THEN "ZeroDivisionError"
                    \* probabilities * uniform_samples: operands could not be broadcast
                    ELSE IF rebalance /\ ~BroadcastOK(Len(p.num), n) THEN "ValueError"
                    \* np.dot of None
                    ELSE IF IsNone(held) THEN "TypeError"
                    \* np.dot: shapes not aligned
                    ELSE IF Len(Val(held).num) # n THEN "ValueError"
                    ELSE "no"
       IN  IF error # "no"
           THEN /\ result' = Raise(error)
                /\ first' = Remember(seed, Raise(error))
                /\ pc' = "idle"
                \* the uniforms are drawn before the product fails
                /\ rng' = IF rebalance THEN Advance(rng, n) ELSE rng
                /\ draws' = IF rebalance THEN draws + n ELSE draws
                /\ UNCHANGED locals
           ELSE /\ rng' = IF rebalance THEN Advance(rng, n) ELSE rng
                /\ draws' = IF rebalance THEN draws + n ELSE draws
                /\ current_weights' = held
                /\ portfolio_returns' =
                      [portfolio_returns EXCEPT ![t + 1] = PeriodReturn(Val(held), returns, t)]
                /\ t' = t + 1
                /\ drawn_at' = IF rebalance THEN Append(drawn_at, t) ELSE drawn_at
                /\ weights_used' = Append(weights_used, held)
                /\ UNCHANGED <<pc, result, first>>
    /\ UNCHANGED <<args, seed>>

\* the return of the filled array
SimReturn ==
    /\ pc = "loop"
    /\ t = returns.shape[1]
    /\ result' = Return(portfolio_returns)
    /\ first' = Remember(seed, Return(portfolio_returns))
    /\ pc' = "idle"
    /\ UNCHANGED <<args, seed, rng, locals, draws>>

(***************************************************************************)
(* calculate_portfolio_return                                              *)
(***************************************************************************)
\* mutant: the pairs of zip(weights, returns) are summed, so that the longer
\* array is cut to the shorter
CprResultZip(w, r) ==
    LET n == IF Len(w.num) < Len(r.data) THEN Len(w.num) ELSE Len(r.data)
    IN  Return(Some([num |-> SumSeq([i \in 1..n |-> w.num[i] * r.data[i]]),
                     den |-> w.den]))
\* mutant: only a weight without a return is an error, returns beyond the
\* weights are ignored
CprResultIgnoreExtra(w, r) ==
    IF Len(w.num) > Len(r.data) THEN Raise("ValueError")
    ELSE Return(Some([num |-> SumSeq([i \in 1..Len(w.num) |-> w.num[i] * r.data[i]]),
                      den |-> w.den]))
\* the length check and the dot product of two 1-D arrays
CprResult(w, r) ==
    IF Len(w.num) # Len(r.data) THEN Raise("ValueError")
    ELSE Return(Some(Dot(w, r.data)))

\* mutant: the product is formed in the caller's array (weights *= returns)
calculate_portfolio_return_in_place ==
    /\ op = "calculate_portfolio_return"
    /\ pc = "idle"
    /\ result' = CprResult(weights, returns)
    /\ weights' = IF result'.status = "ok"
                  THEN [weights EXCEPT !.num = [i \in 1..Len(weights.num) |->
                                                  weights.num[i] * returns.data[i]]]
                  ELSE weights
    /\ UNCHANGED <<op, n_assets, n_periods, probabilities, returns, file, prices,
                   method, min_observations, tickers, portfolio, rebalance_frequency,
                   seed, pc, rng, locals, draws, first>>
calculate_portfolio_return ==
    /\ op = "calculate_portfolio_return"
    /\ pc = "idle"
    /\ result' = CprResult(weights, returns)
    /\ UNCHANGED <<args, seed, pc, rng, locals, draws, first>>

(***************************************************************************)
(* polars.  A table is its column names, its column dtypes and its rows;   *)
(* a cell is optional, and null is None.                                   *)
(***************************************************************************)
\* the column at position j
Column(rows, j) == [i \in 1..Len(rows) |-> rows[i][j]]
\* the position of the column named c
Index(h, c) == CHOOSE j \in 1..Len(h) : h[j] = c
HasColumn(h, c) == \E j \in 1..Len(h) : h[j] = c

\* the dtype pl.read_csv(try_parse_dates=True) infers for a column of cells:
\* text that is no number makes it a string column, and so does a column of
\* nothing but empty cells
InferDtype(cells) ==
    IF \E i \in 1..Len(cells) : cells[i].kind = "text" THEN "String"
    ELSE IF \E i \in 1..Len(cells) : cells[i].kind = "date" THEN "Date"
    ELSE IF \E i \in 1..Len(cells) : cells[i].kind = "float" THEN "Float64"
    ELSE IF \E i \in 1..Len(cells) : cells[i].kind = "int" THEN "Int64"
    ELSE "String"
\* the value of a cell in a column of that dtype: an empty cell is null, and
\* a string column keeps the text
ParseCell(cell, dtype) ==
    IF cell.kind = "empty" THEN None
    ELSE IF dtype = "String" THEN Some(cell)
    ELSE Some(cell.v)
\* pl.read_csv(filepath, try_parse_dates=True) of an existing file
read_csv(f) ==
    IF Len(f.header) = 0 THEN Raise("NoDataError")
    ELSE LET dt == [j \in 1..Len(f.header) |-> InferDtype(Column(f.rows, j))]
         IN  Return(Some([columns |-> f.header,
                          dtypes |-> dt,
                          rows |-> [i \in 1..Len(f.rows) |->
                                      [j \in 1..Len(f.header) |->
                                          ParseCell(f.rows[i][j], dt[j])]]]))
\* mutant: a table counts as empty when it has no columns
is_empty_no_columns(table) == Len(table.columns) = 0
\* DataFrame.is_empty(): the table has no rows
is_empty(table) == Len(table.rows) = 0
\* a strict cast of column j to Float64 fails on a string that is no number
CastFails(table, j) ==
    /\ table.dtypes[j] = "String"
    /\ \E i \in 1..Len(table.rows) :
          /\ ~IsNone(table.rows[i][j])
          /\ Val(table.rows[i][j]).kind = "text"
\* pl.col(col).cast(pl.Float64) of a cell of a column of that dtype
CastCell(c, dtype) ==
    IF IsNone(c) THEN None
    ELSE IF dtype = "String" THEN Some(Val(c).v)
    ELSE c

(***************************************************************************)
(* load_prices_from_csv                                                    *)
(***************************************************************************)
\* what follows the test of the path: the read, the test for no rows and the
\* cast of every column but "Date"
LoadResult(f) ==
    LET read == read_csv(f)
        table == Val(read.value)
    IN  IF read.status # "ok" THEN read
        ELSE IF is_empty(table) THEN Raise("ValueError")
        ELSE IF \E j \in TickerIdx(table.columns) : CastFails(table, j)
             THEN Raise("InvalidOperationError")
        ELSE Return(Some(
               [columns |-> table.columns,
                dtypes |-> [j \in 1..Len(table.columns) |->
                              IF table.columns[j] # "Date" THEN "Float64"
                              ELSE table.dtypes[j]],
                rows |-> [i \in 1..Len(table.rows) |->
                            [j \in 1..Len(table.columns) |->
                                IF table.columns[j] # "Date"
                                THEN CastCell(table.rows[i][j], table.dtypes[j])
                                ELSE table.rows[i][j]]]]))

\* the call, up to the test of the path
load_prices_from_csv ==
    /\ op = "load_prices_from_csv"
    /\ pc = "idle"
    /\ IF ~file.exists
       THEN /\ result' = Raise("FileNotFoundError")
            /\ UNCHANGED pc
       ELSE /\ result' = NoResult
            /\ pc' = "read_csv"
    /\ UNCHANGED <<args, seed, rng, locals, draws, first>>

\* the rest of the call
LoadRead ==
    /\ pc = "read_csv"
    /\ result' = LoadResult(file)
    /\ pc' = "idle"
    /\ UNCHANGED <<args, seed, rng, locals, draws, first>>

(***************************************************************************)
(* calculate_returns                                                       *)
(***************************************************************************)
RECURSIVE ForwardFill(_)
\* fill_null(strategy="forward"): a null takes the last value before it
ForwardFill(col) ==
    IF Len(col) = 0 THEN <<>>
    ELSE LET front == ForwardFill(SubSeq(col, 1, Len(col) - 1))
             last == col[Len(col)]
         IN  Append(front,
                    IF IsNone(last) /\ Len(front) > 0 THEN front[Len(front)] ELSE last)
\* Expr.pct_change(): the change from the most recent non-null value, as a
\* fraction of it; polars fills nulls forward before it takes the quotient
pct_change(col) ==
    LET f == ForwardFill(col)
    IN  [i \in 1..Len(col) |->
            IF i = 1 \/ IsNone(f[i]) \/ IsNone(f[i - 1]) THEN None
            ELSE Some([num |-> Val(f[i]) - Val(f[i - 1]), den |-> Val(f[i - 1])])]
\* Expr.log().diff(): ln(a) - ln(b), kept as the quotient [num |-> a,
\* den |-> b] whose logarithm it is; null wherever either price is null
log_diff(col) ==
    [i \in 1..Len(col) |->
        IF i = 1 \/ IsNone(col[i]) \/ IsNone(col[i - 1]) THEN None
        ELSE Some([num |-> Val(col[i]), den |-> Val(col[i - 1])])]
\* DataFrame.drop_nulls(): the rows without a null in any column
drop_nulls(rows) ==
    LET Complete(r) == \A j \in 1..Len(r) : ~IsNone(r[j])
    IN  SelectSeq(rows, Complete)

CalcReturns(p, m) ==
    LET IsTicker(c) == c # "Date"
        ticker_cols == SelectSeq(p.columns, IsTicker)
        change(col) == IF m = "simple" THEN pct_change(col) ELSE log_diff(col)
        cols == [k \in 1..(Len(ticker_cols) + 1) |->
                   IF k = 1 THEN Column(p.rows, Index(p.columns, "Date"))
                   ELSE change(Column(p.rows, Index(p.columns, ticker_cols[k - 1])))]
    IN  IF m \notin {"simple", "log"} THEN Raise("ValueError")
        ELSE IF ~HasColumn(p.columns, "Date") THEN Raise("ColumnNotFoundError")
        ELSE Return(Some(
               [columns |-> <<"Date">> \o ticker_cols,
                dtypes |-> [k \in 1..(Len(ticker_cols) + 1) |->
                              IF k = 1 THEN p.dtypes[Index(p.columns, "Date")]
                              ELSE "Float64"],
                rows |-> drop_nulls([i \in 1..Len(p.rows) |->
                                       [k \in 1..(Len(ticker_cols) + 1) |-> cols[k][i]]])]))

calculate_returns ==
    /\ op = "calculate_returns"
    /\ pc = "idle"
    /\ result' = CalcReturns(prices, method)
    /\ UNCHANGED <<args, seed, pc, rng, locals, draws, first>>

(***************************************************************************)
(* get_valid_tickers                                                       *)
(***************************************************************************)
\* pl.col(col).is_not_null().sum()
NotNullCount(col) == Cardinality({i \in 1..Len(col) : ~IsNone(col[i])})
\* mutant: a column needs more than min_observations values
EnoughStrict(count, m) == count > m
\* the threshold test
Enough(count, m) == count >= m

GetValidTickers(p, m) ==
    LET IsTicker(c) == c # "Date"
        ticker_cols == SelectSeq(p.columns, IsTicker)
        IsValid(c) == Enough(NotNullCount(Column(p.rows, Index(p.columns, c))), m)
    IN  Return(SelectSeq(ticker_cols, IsValid))

get_valid_tickers ==
    /\ op = "get_valid_tickers"
    /\ pc = "idle"
    /\ result' = GetValidTickers(prices, min_observations)
    /\ UNCHANGED <<args, seed, pc, rng, locals, draws, first>>

(***************************************************************************)
(* The caller: one function and its arguments, called again and again with *)
(* any seed.                                                               *)
(***************************************************************************)
\* nothing has been called yet
Idle ==
    /\ portfolio = None
    /\ seed = None
    /\ pc = "idle"
    /\ rng = 0
    /\ t = 0
    /\ current_weights = None
    /\ portfolio_returns = <<>>
    /\ result = NoResult
    /\ draws = 0
    /\ drawn_at = <<>>
    /\ weights_used = <<>>
    /\ first = None

Init ==
    /\ \/ /\ op = "simulate_random_weights"
          /\ n_assets \in AssetArgs
          /\ n_periods = 0
          /\ returns = NoReturns
          /\ rebalance_frequency = 1
       \/ /\ op = "generate_weight_history"
          /\ n_assets \in AssetArgs
          /\ n_periods \in PeriodArgs
          /\ returns = NoReturns
          /\ rebalance_frequency = 1
       \/ /\ op = "simulate_portfolio_returns"
          /\ n_assets = 0
          /\ n_periods = 0
          /\ returns \in ReturnsArgs
          /\ rebalance_frequency \in FreqArgs
    /\ probabilities \in ProbArgs
    /\ weights = NoWeights
    /\ file = NoFile
    /\ prices = NoTable
    /\ method = "simple"
    /\ min_observations = 252
    /\ tickers = <<>>
    /\ Idle

Next ==
    \/ simulate_random_weights
    \/ generate_weight_history
    \/ SimCall
    \/ SimPeriod
    \/ SimReturn

Spec == Init /\ [][Next]_vars

\* the caller of calculate_portfolio_return, with any two 1-D arrays
InitCalc ==
    /\ op = "calculate_portfolio_return"
    /\ weights \in WeightArgs
    /\ returns \in ReturnVectors
    /\ n_assets = 0
    /\ n_periods = 0
    /\ rebalance_frequency = 1
    /\ probabilities = None
    /\ file = NoFile
    /\ prices = NoTable
    /\ method = "simple"
    /\ min_observations = 252
    /\ tickers = <<>>
    /\ Idle

NextCalc == calculate_portfolio_return

SpecCalc == InitCalc /\ [][NextCalc]_vars

\* the caller of monkeys.data, with any file at the path or any price table
InitData ==
    /\ \/ /\ op = "load_prices_from_csv"
          \* any member of Files
          /\ \/ file = NoFile
             \/ \E h \in Headers :
                  \E T \in 0..(IF Len(h) = 0 THEN 0 ELSE MaxFileRows) :
                     file \in FilesWith(h, T)
          /\ prices = NoTable
          /\ method = "simple"
          /\ min_observations = 252
       \/ /\ op = "calculate_returns"
          /\ file = NoFile
          \* any member of PriceTables
          /\ \E h \in Headers :
                \E T \in 0..(IF Len(h) = 0 THEN 0 ELSE MaxRows) :
                   prices \in TablesWith(h, T)
          /\ method \in Methods
          /\ min_observations = 252
       \/ /\ op = "get_valid_tickers"
          /\ file = NoFile
          \* any member of PriceTables
          /\ \E h \in Headers :
                \E T \in 0..(IF Len(h) = 0 THEN 0 ELSE MaxRows) :
                   prices \in TablesWith(h, T)
          /\ method = "simple"
          /\ min_observations \in MinObsArgs
    /\ n_assets = 0
    /\ n_periods = 0
    /\ rebalance_frequency = 1
    /\ probabilities = None
    /\ returns = NoReturns
    /\ weights = NoWeights
    /\ tickers = <<>>
    /\ Idle

\* the caller that constructs portfolios from any weights and tickers
InitPortfolio ==
    /\ op = "MonkeyPortfolio"
    /\ weights \in WeightArgs
    /\ tickers \in TickerArgs
    /\ n_assets = 0
    /\ n_periods = 0
    /\ rebalance_frequency = 1
    /\ probabilities = None
    /\ returns = NoReturns
    /\ file = NoFile
    /\ prices = NoTable
    /\ method = "simple"
    /\ min_observations = 252
    /\ Idle

NextPortfolio ==
    \/ MonkeyPortfolio
    \/ SetWeights
    \/ SetTickers

SpecPortfolio == InitPortfolio /\ [][NextPortfolio]_vars

NextData ==
    \/ load_prices_from_csv
    \/ LoadRead
    \/ calculate_returns
    \/ get_valid_tickers

SpecData == InitData /\ [][NextData]_vars

\* the callers of the six functions that compute on arrays and tables; the
\* probabilities here are none or any vector of zeros and ones
CoreProbArgs ==
    {None} \cup {Some([num |-> v, den |-> 1]) :
                    v \in UNION {[1..k -> {0, 1}] : k \in 0..MaxAssets}}
InitCore ==
    \/ Init /\ probabilities \in CoreProbArgs
    \/ InitCalc
    \/ InitData

NextCore ==
    \/ simulate_random_weights
    \/ generate_weight_history
    \/ SimCall
    \/ SimPeriod
    \/ SimReturn
    \/ calculate_portfolio_return
    \/ load_prices_from_csv
    \/ LoadRead
    \/ calculate_returns
    \/ get_valid_tickers

SpecCore == InitCore /\ [][NextCore]_vars

(***************************************************************************)
(* Properties                                                              *)
(***************************************************************************)
Sim == op = "simulate_portfolio_returns"
Gwh == op = "generate_weight_history"
Srw == op = "simulate_random_weights"
\* the last call has ended
Done == pc = "idle" /\ result.status # "none"
Given == ~IsNone(probabilities)
ProbLen == Len(Val(probabilities).num)
ProbSum == SumSeq(Val(probabilities).num)
Periods == returns.shape[1]
Assets == returns.shape[2]
\* the weight-vector invariant of a float array w over n assets: the length,
\* no negative weight, and a sum of 1
ValidWeights(w, n) ==
    /\ Len(w.num) = n
    /\ w.den # 0
    /\ \A i \in 1..Len(w.num) : w.num[i] * w.den >= 0
    /\ SumSeq(w.num) = w.den

\* C1: with rebalance_frequency f, weights are drawn at period k exactly when
\* k mod f = 0, and the weights any period k uses are those of period
\* f * floor(k / f)
C1_RebalanceSchedule ==
    \A k \in 0..(Len(weights_used) - 1) :
        /\ (\E j \in 1..Len(drawn_at) : drawn_at[j] = k)
              <=> (k % rebalance_frequency = 0)
        /\ weights_used[k + 1]
              = weights_used[rebalance_frequency * (k \div rebalance_frequency) + 1]
\* three periods at frequency 2: drawn at 0 and 2, held at 1, and the second
\* draw differs from the first
C1_Witness ==
    /\ Sim /\ rebalance_frequency = 2
    /\ Len(weights_used) = 3
    /\ drawn_at = <<0, 2>>
    /\ weights_used[2] = weights_used[1]
    /\ weights_used[3] # weights_used[1]

\* C2: period 0 always draws; the register is unset only before period 0, never
\* when a period's return is computed, and never at a period off the schedule
C2_RegisterSetAfterPeriod0 ==
    /\ (pc = "loop" /\ IsNone(current_weights)) => t = 0
    /\ (pc = "loop" /\ t > 0) => ~IsNone(current_weights)
    /\ \A k \in 1..Len(weights_used) : ~IsNone(weights_used[k])
    /\ Len(weights_used) >= 1 => (Len(drawn_at) >= 1 /\ drawn_at[1] = 0)
    /\ result.status # "TypeError"
\* period 1 of a frequency-2 run was computed from the weights drawn at period 0
C2_Witness ==
    /\ Sim /\ pc = "loop" /\ rebalance_frequency = 2
    /\ t = 2 /\ drawn_at = <<0>>
    /\ ~IsNone(current_weights)

\* the result is one value per period, each the dot product of the weights held
\* at that period with that period's row
OutputIsDotProducts ==
    /\ result.status = "ok"
    /\ Len(result.value) = Periods
    /\ Len(weights_used) = Periods
    /\ \A k \in 1..Periods :
          result.value[k] =
             [num |-> SumSeq([i \in 1..Assets |->
                                 Val(weights_used[k]).num[i] * returns.data[k][i]]),
              den |-> IF Assets = 0 THEN 1 ELSE Val(weights_used[k]).den]
C4_InvalidArgumentsRaise ==
    (Sim /\ (returns.ndim # 2 \/ rebalance_frequency < 1))
        => /\ pc = "idle"
           /\ result.status \in {"none", "ValueError"}
           /\ result.value = <<>>
           /\ portfolio_returns = <<>>
\* a call with a matrix of three periods and a frequency of 0 has raised
C4_Witness ==
    /\ Sim /\ Done /\ result.status = "ValueError"
    /\ returns.ndim = 2 /\ Periods = 3 /\ rebalance_frequency = 0

\* C5: every weight vector simulate_random_weights returns has n_assets
\* non-negative weights that sum to 1
C5_WeightsValid ==
    (Srw /\ Done /\ result.status = "ok")
        => ValidWeights(Val(result.value), n_assets)

\* C6: for n_periods >= 1 and n_assets >= 1 generate_weight_history returns
\* n_periods rows, each n_assets non-negative weights that sum to 1
C6_HistoryValid ==
    (Gwh /\ Done /\ n_periods >= 1 /\ n_assets >= 1)
        => /\ result.status = "ok" => Len(result.value) = n_periods
           /\ \A k \in 1..Len(result.value) : ValidWeights(result.value[k], n_assets)

\* C7: a call with the seed of an earlier call (same function, same arguments)
\* ends as that call ended, whatever was called in between
C7_Deterministic ==
    (/\ Done /\ ~IsNone(first) /\ ~IsNone(seed)
     /\ Val(seed) = Val(first).seed)
        => /\ result.status = Val(first).result.status
           /\ result.value = Val(first).result.value
\* a seeded call returned, a call with another seed followed, and the first
\* seed's call was repeated
C7_Witness ==
    /\ Done /\ ~IsNone(first) /\ ~IsNone(seed)
    /\ Val(seed) = Val(first).seed
    /\ Val(first).between
    /\ result.status = "ok"
    /\ Sim /\ Periods = 3 /\ Assets = 2

\* C8: simulate_random_weights raises ValueError when n_assets < 1, or the
\* probabilities do not have one entry per asset, or do not sum to 1; it
\* returns for every other input
C8_SrwErrors ==
    (Srw /\ Done)
        => LET bad == \/ n_assets < 1
                      \/ Given /\ ProbLen # n_assets
                      \/ Given /\ ProbSum # 1
           IN  /\ bad => (result.status = "ValueError" /\ result.value = <<>>)
               /\ ~bad => (result.status = "ok" /\ Len(result.value) = 1)
\* probabilities of the right length that sum to 2 were refused
C8_Witness ==
    /\ Srw /\ Done /\ result.status = "ValueError"
    /\ n_assets = 2 /\ Given /\ ProbLen = 2 /\ ProbSum = 2

\* C9: generate_weight_history and simulate_portfolio_returns raise ValueError
\* when the probabilities do not have one entry per asset or do not sum to 1
C9_ProbabilitiesChecked ==
    /\ (Gwh /\ Done /\ Given /\ (ProbLen # n_assets \/ ProbSum # 1))
          => result.status = "ValueError"
    /\ (Sim /\ Done /\ Given /\ returns.ndim = 2 /\ (ProbLen # Assets \/ ProbSum # 1))
          => result.status = "ValueError"

\* C10: generate_weight_history raises ValueError, and returns no history, when
\* n_assets < 1 or n_periods < 1
C10_GwhCountsChecked ==
    (Gwh /\ Done /\ (n_assets < 1 \/ n_periods < 1))
        => (result.status = "ValueError" /\ result.value = <<>>)

\* the numerators of raw = probabilities * uniform_samples for the n uniforms
\* drawn from generator state g, written out index by index; pr is the
\* numerators of the probabilities, and an operand of length 1 is broadcast
RawFromStream(pr, g, n) ==
    [i \in 1..(IF Len(pr) = 1 THEN n ELSE Len(pr)) |->
        (IF Len(pr) = 1 THEN pr[1] ELSE pr[i])
           * (Advance(g, (IF n = 1 THEN 1 ELSE i) - 1) % UCard)]
\* the numerators of the probabilities in use: 1/n each when none are supplied
\* (the common denominator cancels in the quotient)
ProbNums(n) == IF Given THEN Val(probabilities).num ELSE [i \in 1..n |-> 1]
\* w is p_i * u_i / sum_j (p_j * u_j) for the uniforms u drawn from state g;
\* a sum of 0 gives 0/0, which is not a number
IsConstruction(w, g, n) ==
    LET r == RawFromStream(ProbNums(n), g, n)
    IN  /\ Len(w.num) = Len(r)
        /\ (w.den = 0) <=> (SumSeq(r) = 0)
        /\ \A i \in 1..Len(r) : w.num[i] * SumSeq(r) = r[i] * w.den

\* C11: every weight vector is w_i = p_i * u_i / sum_j (p_j * u_j) of the
\* uniforms u just drawn, with p_i = 1/n when no probabilities are supplied:
\* the vector simulate_random_weights returns, every row of
\* generate_weight_history, and the weights of every rebalance of
\* simulate_portfolio_returns
C11_Construction ==
    [][/\ (Srw /\ Done /\ result.status = "ok")'
           => IsConstruction(Val(result.value), rng, n_assets)'
       /\ (Gwh /\ Done /\ result.status = "ok")'
           => \A k \in 1..Len(result'.value) :
                 IsConstruction(result'.value[k],
                                Advance(rng', (k - 1) * n_assets), n_assets)
       /\ (Sim /\ pc = "loop" /\ Len(drawn_at') > Len(drawn_at))
           => IsConstruction(Val(current_weights'), rng, Assets)]_vars
\* a second rebalance under supplied, unequal probabilities gave two finite
\* weights
C11_Witness ==
    /\ Sim /\ Len(drawn_at) = 2 /\ Assets = 2
    /\ Given /\ ProbLen = 2
    /\ Val(probabilities).num[1] # Val(probabilities).num[2]
    /\ Val(current_weights).den # 0
    /\ Val(current_weights).num[1] # 0 /\ Val(current_weights).num[2] # 0

\* C12: generate_weight_history draws every row from one stream seeded once:
\* row k is built from the k-th consecutive block of n_assets uniforms, row 0
\* is what simulate_random_weights returns for the same seed and
\* probabilities, and the history is a prefix of the history for one more
\* period
C12_OneStream ==
    (Gwh /\ Done /\ result.status = "ok")
        => /\ \A k \in 1..n_periods :
                 result.value[k].num
                    = RawFromStream(ProbNums(n_assets),
                                    Advance(rng, (k - 1) * n_assets), n_assets)
           /\ LET one == SrwResult(n_assets, rng, probabilities)
               IN  one.status = "ok" => one.value = Some(result.value[1])
           /\ LET longer == GwhResult(n_assets, n_periods + 1, rng, probabilities)
               IN  /\ longer.status = "ok"
                   /\ SubSeq(longer.value, 1, n_periods) = result.value
\* a seeded history of three rows of two finite weights, all rows different
C12_Witness ==
    /\ Gwh /\ Done /\ result.status = "ok"
    /\ ~IsNone(seed) /\ n_periods = 3 /\ n_assets = 2
    /\ \A k \in 1..3 : result.value[k].den # 0
    /\ result.value[1] # result.value[2]
    /\ result.value[2] # result.value[3]
    /\ result.value[1] # result.value[3]

Cpr == op = "calculate_portfolio_return"
\* the sum over the assets of weight times return, as a numerator over the
\* weights' denominator
WeightedSum == SumSeq([i \in 1..Len(weights.num) |-> weights.num[i] * returns.data[i]])

\* C13: for weights and returns of equal length calculate_portfolio_return
\* returns the sum over the assets of weight times return
C13_WeightedSum ==
    (Cpr /\ Done /\ Len(weights.num) = Len(returns.data))
        => /\ result.status = "ok"
           /\ Val(result.value).den # 0
           /\ Val(result.value).num * weights.den = WeightedSum * Val(result.value).den
\* weights 0.6 and 0.4 with returns -0.10 and 0.05 gave -0.04
C13_Witness ==
    /\ Cpr /\ Done /\ result.status = "ok"
    /\ weights = [num |-> <<3, 2>>, den |-> 5]
    /\ returns.data = <<-10, 5>>
    /\ Val(result.value).num = -4 * Val(result.value).den

\* C14, as claimed: a weight without a return is a missing-key error; returns
\* beyond the weights are ignored and the result is the sum over the weights
C14_AsClaimed ==
    (Cpr /\ Done)
        => /\ Len(weights.num) > Len(returns.data) => result.status = "KeyError"
           /\ Len(weights.num) < Len(returns.data)
                 => /\ result.status = "ok"
                    /\ Val(result.value).num * weights.den
                          = WeightedSum * Val(result.value).den
\* C14, amended: weights and returns are matched by position; a weight without
\* a return is a ValueError, and so is a return without a weight
C14_MismatchRaisesEitherWay ==
    (Cpr /\ Done)
        => /\ Len(weights.num) > Len(returns.data) => result = Raise("ValueError")
           /\ Len(weights.num) < Len(returns.data) => result = Raise("ValueError")
\* two weights met one return
C14_Witness ==
    /\ Cpr /\ Done /\ result.status = "ValueError"
    /\ Len(weights.num) = 2 /\ Len(returns.data) = 1

\* C15: calculate_portfolio_return raises ValueError, and returns no value,
\* exactly when the weights and the returns differ in length
C15_LengthMismatchRaises ==
    (Cpr /\ Done)
        => /\ (Len(weights.num) # Len(returns.data)) <=> (result.status = "ValueError")
           /\ result.status = "ValueError" => result.value = <<>>
           /\ result.status \in {"ok", "ValueError"}
\* one weight met two returns
C15_Witness ==
    /\ Cpr /\ Done /\ result.status = "ValueError" /\ result.value = <<>>
    /\ Len(weights.num) = 1 /\ Len(returns.data) = 2

\* C16: for a single asset column and a rebalance frequency of 1,
\* simulate_portfolio_returns returns that asset's own return series, for
\* every seed
C16_SingleAssetExact ==
    (Sim /\ Done /\ returns.ndim = 2 /\ Assets = 1 /\ rebalance_frequency = 1)
        => /\ result.status = "ok"
           /\ Len(result.value) = Periods
           /\ \A k \in 1..Periods :
                 /\ result.value[k].den # 0
                 /\ result.value[k].num = returns.data[k][1] * result.value[k].den

Load == op = "load_prices_from_csv"
Calc == op = "calculate_returns"

\* C17: load_prices_from_csv raises FileNotFoundError when nothing exists at
\* the path, before anything is read, and ValueError when the file has a
\* header and no data rows; neither call returns a table
C17_LoadErrors ==
    /\ (Load /\ pc = "read_csv") => file.exists
    /\ (Load /\ Done /\ ~file.exists) => result = Raise("FileNotFoundError")
    /\ (Load /\ Done /\ file.exists /\ Len(file.header) > 0 /\ Len(file.rows) = 0)
          => result = Raise("ValueError")
\* a file of nothing but the header line "Date" was refused
C17_Witness ==
    /\ Load /\ Done /\ result.status = "ValueError"
    /\ file.exists /\ file.header = <<"Date">> /\ file.rows = <<>>

\* C18: every load of a file with data rows succeeds, every column but "Date"
\* is Float64, and a cell that is no number is null in the table
C18_FloatColumnsCellsCoerced ==
    (Load /\ Done /\ file.exists /\ Len(file.header) > 0 /\ Len(file.rows) > 0)
        => /\ result.status = "ok"
           /\ \A j \in TickerIdx(file.header) :
                 /\ Val(result.value).dtypes[j] = "Float64"
                 /\ \A i \in 1..Len(file.rows) :
                       file.rows[i][j].kind \in {"text", "empty"}
                          => IsNone(Val(result.value).rows[i][j])

\* C19: in every row of the returns table, which is the price row of the same
\* date d, every asset's value is price[d] / price[d-1] - 1 under "simple" and
\* ln(price[d]) - ln(price[d-1]) under "log"
C19_ReturnValues ==
    (Calc /\ Done /\ result.status = "ok")
        => \A r \in 1..Len(Val(result.value).rows) :
              \A k \in 2..Len(Val(result.value).columns) :
                 LET d == Val(Val(result.value).rows[r][1])
                     j == Index(prices.columns, Val(result.value).columns[k])
                     v == Val(Val(result.value).rows[r][k])
                 IN  /\ d >= 2
                     /\ ~IsNone(prices.rows[d][j])
                     /\ ~IsNone(prices.rows[d - 1][j])
                     /\ method = "simple"
                           => v.num * Val(prices.rows[d - 1][j])
                                = (Val(prices.rows[d][j]) - Val(prices.rows[d - 1][j])) * v.den
                     /\ method = "log"
                           => v.num * Val(prices.rows[d - 1][j])
                                = Val(prices.rows[d][j]) * v.den

\* the price rows that have no null in any column
CompleteRows ==
    {i \in 1..Len(prices.rows) :
        \A j \in 1..Len(prices.columns) : ~IsNone(prices.rows[i][j])}
\* the dates of the rows of the returns table; the date of price row i is i
ReturnedRows ==
    {Val(Val(result.value).rows[r][1]) : r \in 1..Len(Val(result.value).rows)}
\* C20: for a price table with an asset column, the first row is never in the
\* returns table, nor is any row with a missing value in any column; without
\* missing prices the returns table has one row fewer than the price table
C20_RowsKept ==
    (Calc /\ Done /\ result.status = "ok" /\ TickerIdx(prices.columns) # {})
        => /\ 1 \notin ReturnedRows
           /\ ReturnedRows \subseteq CompleteRows
           /\ (Len(prices.rows) >= 1 /\ Cardinality(CompleteRows) = Len(prices.rows))
                 => Len(Val(result.value).rows) = Len(prices.rows) - 1

\* C21: the returns table has the columns of the price table, in the same
\* order
C21_ColumnsPreserved ==
    (Calc /\ Done /\ result.status = "ok")
        => Val(result.value).columns = prices.columns

Gvt == op = "get_valid_tickers"
\* the number of non-null cells of column j of the price table
Observations(j) ==
    Cardinality({i \in 1..Len(prices.rows) : Len(prices.rows[i][j]) = 1})
\* the positions of the asset columns with at least min_observations values
ValidIdx ==
    {j \in 1..Len(prices.columns) :
        prices.columns[j] # "Date" /\ Observations(j) >= min_observations}
\* the result is exactly those columns, each once, in the table's order
ExactlyTheValidColumns ==
    /\ result.status = "ok"
    /\ {result.value[k] : k \in 1..Len(result.value)}
          = {prices.columns[j] : j \in ValidIdx}
    /\ Len(result.value) = Cardinality(ValidIdx)
    /\ \A k \in 1..Len(result.value) : result.value[k] # "Date"
\* C22, as claimed: the result is exactly the asset columns with at least
\* min_observations values, and it is empty for a table without rows
C22_AsClaimed ==
    (Gvt /\ Done)
        => /\ ExactlyTheValidColumns
           /\ Len(prices.rows) = 0 => result.value = <<>>
\* C22, amended: the result is exactly those columns; it is empty for a table
\* without asset columns, and for a table without rows when
\* min_observations >= 1
C22_ValidTickers ==
    (Gvt /\ Done)
        => /\ ExactlyTheValidColumns
           /\ TickerIdx(prices.columns) = {} => result.value = <<>>
           /\ (Len(prices.rows) = 0 /\ min_observations >= 1) => result.value = <<>>
\* of two asset columns, the one with two values passed a threshold of 2 and
\* the one with a single value did not
C22_Witness ==
    /\ Gvt /\ Done /\ min_observations = 2
    /\ prices.columns = <<"Date", "A", "B">>
    /\ result.value = <<"B">>
    /\ Observations(2) = 1

Ctor == op = "MonkeyPortfolio"
\* C23: the construction raises ValueError for weights and tickers of
\* different lengths, else for weights that do not sum to 1, else for a
\* negative weight; every other construction succeeds, with n_assets the
\* number of tickers and the seed as given
C23_ConstructionChecks ==
    (Ctor /\ Done)
        => LET bad_length == Len(weights.num) # Len(tickers)
               bad_sum == SumSeq(weights.num) # weights.den
               negative == \E i \in 1..Len(weights.num) : weights.num[i] < 0
           IN  /\ bad_length
                     => result = RaiseMsg("ValueError", "must match tickers length")
               /\ (~bad_length /\ bad_sum)
                     => result = RaiseMsg("ValueError", "must sum to 1.0")
               /\ (~bad_length /\ ~bad_sum /\ negative)
                     => result = RaiseMsg("ValueError", "must be non-negative")
               /\ (~bad_length /\ ~bad_sum /\ ~negative)
                     => /\ result.status = "ok"
                        /\ PortfolioNAssets(Val(result.value)) = Len(tickers)
                        /\ Val(result.value).tickers = tickers
                        /\ Val(result.value).weights = weights
                        /\ Val(result.value).seed = seed
\* weights 1.2 and -0.2 for two tickers were refused for their sign
C23_Witness ==
    /\ Ctor /\ Done
    /\ weights = [num |-> <<6, -1>>, den |-> 5] /\ Len(tickers) = 2
    /\ result = RaiseMsg("ValueError", "must be non-negative")

\* C26: a portfolio that was constructed has as many weights as tickers, no
\* negative weight and a sum of 1, in every later state
C26_PortfolioStaysValid ==
    (Ctor /\ ~IsNone(portfolio))
        => ValidWeights(Val(portfolio).weights, Len(Val(portfolio).tickers))

\* C24: a call of simulate_random_weights, generate_weight_history,
\* calculate_portfolio_return or simulate_portfolio_returns that fails has
\* taken no uniform from its generator and computed no period's return, and
\* returns nothing
C24_FailFast ==
    ((Srw \/ Gwh \/ Cpr \/ Sim) /\ Done /\ result.status # "ok")
        => /\ draws = 0
           /\ Sim => t = 0
           /\ result.value = <<>>

\* C30: the sum of the raw weights is never 0, so that every weight vector
\* returned by simulate_random_weights, every row returned by
\* generate_weight_history and every weight vector held by
\* simulate_portfolio_returns is a vector of numbers
C30_DenominatorPositive ==
    /\ (Srw /\ Done /\ result.status = "ok") => Val(result.value).den # 0
    /\ (Gwh /\ Done /\ result.status = "ok")
          => \A k \in 1..Len(result.value) : result.value[k].den # 0
    /\ Sim => \A k \in 1..Len(weights_used) : Val(weights_used[k]).den # 0

\* the state of the generator that default_rng(seed) makes for the seed given
Seeded == ~IsNone(seed)
SeedState == Val(seed) % RngMod
\* C28: a run of simulate_portfolio_returns over T periods with frequency f
\* takes ceil(T/f) blocks of n_assets uniforms from its generator, each at a
\* period that is a multiple of f, and the weights it uses at period k are
\* the weights of block k div f of the seed's stream, which are the weights a
\* run with frequency 1 uses at period k div f
C28_StreamBlocks ==
    (Sim /\ Done /\ result.status = "ok")
        => /\ Len(drawn_at) = (Periods + rebalance_frequency - 1) \div rebalance_frequency
           /\ draws = Len(drawn_at) * Assets
           /\ \A i \in 1..Len(drawn_at) : drawn_at[i] % rebalance_frequency = 0
           /\ Len(weights_used) = Periods
           /\ Seeded =>
                \A k \in 0..(Periods - 1) :
                    IsConstruction(Val(weights_used[k + 1]),
                                   Advance(SeedState, (k \div rebalance_frequency) * Assets),
                                   Assets)
\* three periods at frequency 2: two blocks, the first held for two periods
C28_Witness ==
    /\ Sim /\ Done /\ result.status = "ok" /\ Seeded
    /\ rebalance_frequency = 2 /\ Periods = 3 /\ Assets = 2
    /\ drawn_at = <<0, 2>>
    /\ draws = 4
    /\ weights_used[1] = weights_used[2]
    /\ weights_used[3] # weights_used[1]
    /\ \A k \in 1..3 : Val(weights_used[k]).den # 0

\* C29: where both calls return for the same seed and probabilities, element
\* k of simulate_portfolio_returns with rebalance_frequency 1 is
\* calculate_portfolio_return of row k of generate_weight_history and row k of
\* the returns
C29_LoopIsHistory ==
    (Sim /\ Done /\ result.status = "ok" /\ rebalance_frequency = 1 /\ Seeded)
        => LET history == GwhResult(Assets, Periods, SeedState, probabilities)
           IN  history.status = "ok"
                  => \A k \in 1..Periods :
                        CprResult(history.value[k], Vector(returns.data[k]))
                            = Return(Some(result.value[k]))
\* two periods of two assets whose weights differ and are numbers
C29_Witness ==
    /\ Sim /\ Done /\ result.status = "ok" /\ rebalance_frequency = 1 /\ Seeded
    /\ Periods >= 2 /\ Assets = 2
    /\ GwhResult(Assets, Periods, SeedState, probabilities).status = "ok"
    /\ weights_used[1] # weights_used[2]
    /\ result.value[1].den # 0 /\ result.value[2].den # 0
    /\ result.value[1].num # 0

\* the smallest and the largest entry of a non-empty sequence of integers
Min(v) == CHOOSE x \in {v[i] : i \in 1..Len(v)} : \A i \in 1..Len(v) : x <= v[i]
Max(v) == CHOOSE x \in {v[i] : i \in 1..Len(v)} : \A i \in 1..Len(v) : x >= v[i]
\* C27: for weights that are non-negative and sum to 1 and returns of the
\* same length, calculate_portfolio_return lies between the smallest and the
\* largest of the asset returns
C27_ConvexCombination ==
    (Cpr /\ Done /\ Len(returns.data) >= 1 /\ ValidWeights(weights, Len(returns.data)))
        => /\ result.status = "ok"
           /\ Val(result.value).den > 0
           /\ Min(returns.data) * Val(result.value).den <= Val(result.value).num
           /\ Val(result.value).num <= Max(returns.data) * Val(result.value).den
\* weights 0.6 and 0.4 on returns -10 and 5 give -4, strictly between them
C27_Witness ==
    /\ Cpr /\ Done
    /\ weights = [num |-> <<3, 2>>, den |-> 5]
    /\ returns.data = <<-10, 5>>
    /\ result = Return(Some([num |-> -20, den |-> 5]))

\* C25: no step of calculate_returns, get_valid_tickers,
\* simulate_random_weights, generate_weight_history,
\* calculate_portfolio_return or simulate_portfolio_returns, whether the call
\* returns or fails, changes the caller's price table, returns, weights or
\* probabilities
C25_InputsUnchanged ==
    [][(op # "load_prices_from_csv")
          => /\ prices' = prices
             /\ returns' = returns
             /\ weights' = weights
             /\ probabilities' = probabilities]_vars
\* a call has returned something other than its input, which the caller
\* still holds: returns with rows dropped, or a product of the weights
C25_Witness ==
    \/ /\ Calc /\ Done /\ result.status = "ok"
       /\ Len(Val(result.value).rows) < Len(prices.rows)
    \/ /\ Cpr /\ Done /\ result.status = "ok"
       /\ Len(weights.num) = 2
       /\ Val(result.value).num # 0

====
